---- MODULE Spec2Model ----
(***************************************************************************)
(* Model of epyt_control.controllers.lqr.linear_quadratic_regulator: the   *)
(* finite-horizon, discrete-time LQR solver (validation, backward Riccati  *)
(* recursion, forward gain computation and rollout).                       *)
(*                                                                         *)
(* Numbers are exact rationals <<num, den>> (den > 0, lowest terms), so    *)
(* the arithmetic of the recursion is the real arithmetic the floating     *)
(* point code approximates.  Arrays are at most 2 x 2.                     *)
(***************************************************************************)
EXTENDS Integers, Sequences, FiniteSets, TLC

(***************************************************************************)
(* Bounds of the model.                                                    *)
(***************************************************************************)
\* largest time_horizon a call is made with
MaxHorizon == 2

\* largest n_max_iter a run of evaluate_policy or fit_to_env is made with
MaxIter == 3

(***************************************************************************)
(* Rational arithmetic.                                                    *)
(***************************************************************************)
Abs(i) == IF i < 0 THEN -i ELSE i

RECURSIVE Gcd(_, _)
Gcd(a, b) == IF b = 0 THEN a ELSE Gcd(b, a % b)

\* the rational n/d in lowest terms with a positive denominator (d # 0)
Rat(n, d) ==
    LET g == Gcd(Abs(n), Abs(d))
        s == IF d < 0 THEN -1 ELSE 1
    IN  <<(s * n) \div g, (s * d) \div g>>

RInt(i) == <<i, 1>>
RZero == RInt(0)
\* p + q over the least common denominator
RAdd(p, q) ==
    LET g == Gcd(p[2], q[2])
    IN  Rat(p[1] * (q[2] \div g) + q[1] * (p[2] \div g), (p[2] \div g) * q[2])
RNeg(p) == <<-p[1], p[2]>>
RSub(p, q) == RAdd(p, RNeg(q))
\* p * q, the common factors cancelled before the products are formed
RMul(p, q) ==
    LET g1 == Gcd(Abs(p[1]), q[2])
        g2 == Gcd(Abs(q[1]), p[2])
    IN  <<(p[1] \div g1) * (q[1] \div g2), (p[2] \div g2) * (q[2] \div g1)>>
\* p / q for q # 0
RDiv(p, q) == RMul(p, IF q[1] < 0 THEN <<-q[2], -q[1]>> ELSE <<q[2], q[1]>>)
RIsZero(p) == p[1] = 0
RGeqZero(p) == p[1] >= 0
RGtZero(p) == p[1] > 0

RECURSIVE RSum(_)
RSum(s) == IF s = <<>> THEN RZero ELSE RAdd(Head(s), RSum(Tail(s)))

(***************************************************************************)
(* numpy arrays.  A 1-D array is a sequence of rationals, a 2-D array a    *)
(* sequence of rows.  Bad is the outcome of an operation that numpy        *)
(* refuses with a ValueError (operand shapes that do not fit); every       *)
(* operation propagates it, as the exception propagates in the code.       *)
(***************************************************************************)
Bad == <<>>

\* the value None as an entry of the list P
NoneM == << <<>> >>

\* an operand no array operation accepts: the operation raises
Unusable(X) == X = Bad \/ X = NoneM

\* the array with its entries computed
Seq1(f) == f \o <<>>

Rows(M) == Len(M)
Cols(M) == Len(M[1])
Shape2(M) == <<Rows(M), Cols(M)>>

\* M.T
Transpose(M) ==
    IF Unusable(M) THEN Bad
    ELSE Seq1([j \in 1..Cols(M) |-> Seq1([i \in 1..Rows(M) |-> M[i][j]])])

\* X @ Y for two 2-D arrays
MatMul(X, Y) ==
    IF Unusable(X) \/ Unusable(Y) THEN Bad
    ELSE IF Cols(X) # Rows(Y) THEN Bad
    ELSE Seq1([i \in 1..Rows(X) |-> Seq1([j \in 1..Cols(Y) |->
            RSum([k \in 1..Cols(X) |-> RMul(X[i][k], Y[k][j])])])])

\* X @ v for a 2-D array and a 1-D array
MatVec(X, v) ==
    IF Unusable(X) \/ v = Bad THEN Bad
    ELSE IF Cols(X) # Len(v) THEN Bad
    ELSE Seq1([i \in 1..Rows(X) |->
            RSum([k \in 1..Cols(X) |-> RMul(X[i][k], v[k])])])

\* the length two operands of lengths a and b broadcast to (0: they do not)
BroadcastDim(a, b) ==
    IF a = b THEN a ELSE IF a = 1 THEN b ELSE IF b = 1 THEN a ELSE 0

\* X + Y for two 2-D arrays, with numpy's broadcasting of axes of length 1
MatAdd(X, Y) ==
    IF Unusable(X) \/ Unusable(Y) THEN Bad
    ELSE LET r == BroadcastDim(Rows(X), Rows(Y))
             c == BroadcastDim(Cols(X), Cols(Y))
         IN  IF r = 0 \/ c = 0 THEN Bad
             ELSE Seq1([i \in 1..r |-> Seq1([j \in 1..c |->
                     RAdd(X[IF Rows(X) = 1 THEN 1 ELSE i][IF Cols(X) = 1 THEN 1 ELSE j],
                          Y[IF Rows(Y) = 1 THEN 1 ELSE i][IF Cols(Y) = 1 THEN 1 ELSE j])])])

\* -X
MatNeg(X) ==
    IF Unusable(X) THEN Bad
    ELSE Seq1([i \in 1..Rows(X) |-> Seq1([j \in 1..Cols(X) |-> RNeg(X[i][j])])])

\* X - Y
MatSub(X, Y) == MatAdd(X, MatNeg(Y))

\* u + v for two 1-D arrays
VecAdd(u, v) ==
    IF u = Bad \/ v = Bad THEN Bad
    ELSE LET n == BroadcastDim(Len(u), Len(v))
         IN  IF n = 0 THEN Bad
             ELSE Seq1([i \in 1..n |-> RAdd(u[IF Len(u) = 1 THEN 1 ELSE i],
                                            v[IF Len(v) = 1 THEN 1 ELSE i])])

MatScale(c, X) ==
    Seq1([i \in 1..Rows(X) |-> Seq1([j \in 1..Cols(X) |-> RMul(c, X[i][j])])])

IsZeroMat(X) == \A i \in 1..Rows(X) : \A j \in 1..Cols(X) : RIsZero(X[i][j])
IsZeroVec(v) == \A i \in 1..Len(v) : RIsZero(v[i])

Det2(M) == RSub(RMul(M[1][1], M[2][2]), RMul(M[1][2], M[2][1]))

\* sum of the squares of the entries
FrobSq(M) == RSum([i \in 1..Rows(M) |-> RSum([j \in 1..Cols(M) |-> RMul(M[i][j], M[i][j])])])

\* the matrix has full rank 2 (only a 2 x 2 array can)
IsRegular2(M) == Shape2(M) = <<2, 2>> /\ ~RIsZero(Det2(M))

\* np.linalg.pinv(M): the Moore-Penrose pseudo-inverse of an array of at most
\* 2 x 2.  Rank 2: the inverse adj(M)/det(M).  Rank 1: M.T / ||M||_F^2.
\* Rank 0: the zero array of the transposed shape.
Pinv(M) ==
    IF Unusable(M) THEN Bad
    ELSE IF IsRegular2(M)
         THEN MatScale(RDiv(RInt(1), Det2(M)),
                       << <<M[2][2], RNeg(M[1][2])>>, <<RNeg(M[2][1]), M[1][1]>> >>)
    ELSE IF IsZeroMat(M) THEN Transpose(M)
    ELSE MatScale(RDiv(RInt(1), FrobSq(M)), Transpose(M))

(***************************************************************************)
(* Python values handed to the function.  kind is the value's type; an     *)
(* ndarray carries its number of axes and its entries (as rows).           *)
(***************************************************************************)
RECURSIVE RatSeq(_)
RatSeq(s) == IF s = <<>> THEN <<>> ELSE <<RInt(Head(s))>> \o RatSeq(Tail(s))

RECURSIVE RatRows(_)
RatRows(m) == IF m = <<>> THEN <<>> ELSE <<RatSeq(Head(m))>> \o RatRows(Tail(m))

\* a 1-D ndarray with the given integer entries (v holds them as one row)
Arr1(s) == [kind |-> "ndarray", ndim |-> 1, v |-> <<RatSeq(s)>>]
\* a 2-D ndarray with the given rows of integer entries
Arr2(m) == [kind |-> "ndarray", ndim |-> 2, v |-> RatRows(m)]
\* a value that is not an ndarray (a Python list)
NotArray == [kind |-> "list", ndim |-> 0, v |-> <<>>]
\* None
None == [kind |-> "NoneType", ndim |-> 0, v |-> <<>>]
\* an int
IntVal(k) == [kind |-> "int", v |-> k]
\* a float
FloatVal(k) == [kind |-> "float", v |-> k]

\* isinstance(a, np.ndarray)
IsNdarray(a) == a.kind = "ndarray"

\* a.shape
Shape(a) == IF a.ndim = 1 THEN <<Len(a.v[1])>> ELSE Shape2(a.v)

\* the entries of a 1-D ndarray
Vec(a) == a.v[1]

(***************************************************************************)
(* .utils.is_mat_spsd / is_mat_spd: the array is a symmetric matrix whose  *)
(* eigenvalues are all >= 0 / > 0.  For a symmetric matrix of at most      *)
(* 2 x 2 the eigenvalue test is the test on diagonal and determinant.      *)
(***************************************************************************)
IsSymmetric(M) ==
    /\ Rows(M) = Cols(M)
    /\ \A i \in 1..Rows(M) : \A j \in 1..Cols(M) : M[i][j] = M[j][i]

is_mat_spsd(a) ==
    /\ a.ndim = 2
    /\ IsSymmetric(a.v)
    /\ \A i \in 1..Rows(a.v) : RGeqZero(a.v[i][i])
    /\ Rows(a.v) = 2 => RGeqZero(Det2(a.v))

is_mat_spd(a) ==
    /\ a.ndim = 2
    /\ IsSymmetric(a.v)
    /\ \A i \in 1..Rows(a.v) : RGtZero(a.v[i][i])
    /\ Rows(a.v) = 2 => RGtZero(Det2(a.v))

(***************************************************************************)
(* The validation of linear_quadratic_regulator: the checks in the order   *)
(* of the code.  Each group of checks yields the exception of its first    *)
(* failing check, NoError when all of them pass.                           *)
(***************************************************************************)
NoError == "none"

\* n = current_state.shape[0]
StateDim(a) == Shape(a.current_state)[1]

\* target_state checked like current_state
ValidateCurrentState_WithTarget(a) ==
    IF ~IsNdarray(a.current_state) THEN "TypeError: current_state"
    ELSE IF ~IsNdarray(a.target_state) THEN "TypeError: target_state"
    ELSE IF a.current_state.ndim # 1 THEN "ValueError: current_state ndim"
    ELSE NoError

\* lines 45-50
ValidateCurrentState(a) ==
    IF ~IsNdarray(a.current_state) THEN "TypeError: current_state"
    ELSE IF a.current_state.ndim # 1 THEN "ValueError: current_state ndim"
    ELSE NoError

\* the shape of state_cost_mat checked before its definiteness
ValidateStateCost_ShapeFirst(a) ==
    IF ~IsNdarray(a.state_cost_mat) THEN "TypeError: state_cost_mat"
    ELSE IF a.state_cost_mat.ndim # 2 \/ ~(Shape(a.state_cost_mat)[1] = StateDim(a))
         THEN "ValueError: state_cost_mat shape"
    ELSE IF ~is_mat_spsd(a.state_cost_mat) THEN "ValueError: state_cost_mat spsd"
    ELSE NoError

\* lines 51-58
ValidateStateCost(a) ==
    IF ~IsNdarray(a.state_cost_mat) THEN "TypeError: state_cost_mat"
    ELSE IF ~is_mat_spsd(a.state_cost_mat) THEN "ValueError: state_cost_mat spsd"
    ELSE IF a.state_cost_mat.ndim # 2 \/ ~(Shape(a.state_cost_mat)[1] = StateDim(a))
         THEN "ValueError: state_cost_mat shape"
    ELSE NoError

\* action_cost_mat tested for definiteness without the test of its type
ValidateActionCost_NoTypeCheck(a) ==
    IF ~is_mat_spd(a.action_cost_mat) THEN "ValueError: action_cost_mat spd"
    ELSE NoError

\* lines 59-63
ValidateActionCost(a) ==
    IF ~IsNdarray(a.action_cost_mat) THEN "TypeError: action_cost_mat"
    ELSE IF ~is_mat_spd(a.action_cost_mat) THEN "ValueError: action_cost_mat spd"
    ELSE NoError

\* lines 64-69
ValidateStateTransition(a) ==
    IF ~IsNdarray(a.state_transition_mat) THEN "TypeError: state_transition_mat"
    ELSE IF Shape(a.state_transition_mat) # <<StateDim(a), StateDim(a)>>
         THEN "ValueError: state_transition_mat shape"
    ELSE NoError

\* lines 70-76
ValidateActionTransition(a) ==
    IF ~IsNdarray(a.action_transition_mat) THEN "TypeError: action_transition_mat"
    ELSE IF Shape(a.action_transition_mat)[1] # StateDim(a)
            \/ Len(Shape(a.action_transition_mat)) # 2
         THEN "ValueError: action_transition_mat shape"
    ELSE NoError

\* time_horizon < 0: a horizon of 0 accepted
HorizonNotPositive_Strict(k) == k < 0

\* time_horizon <= 0
HorizonNotPositive(k) == k <= 0

\* lines 77-81
ValidateHorizon(a) ==
    IF a.time_horizon.kind # "int" THEN "TypeError: time_horizon"
    ELSE IF HorizonNotPositive(a.time_horizon.v) THEN "ValueError: time_horizon"
    ELSE NoError

\* lines 82-91
ValidateFinalCost(a) ==
    IF a.final_state_cost_mat # None
    THEN IF ~IsNdarray(a.final_state_cost_mat)
              THEN "TypeError: final_state_cost_mat"
         ELSE IF ~is_mat_spsd(a.final_state_cost_mat)
              THEN "ValueError: final_state_cost_mat spsd"
         ELSE IF a.final_state_cost_mat.ndim # 2
                 \/ ~(Shape(a.final_state_cost_mat)[1] = StateDim(a))
              THEN "ValueError: final_state_cost_mat shape"
         ELSE NoError
    ELSE NoError

\* action_transition_mat validated before state_transition_mat
ValidationError_TransitionsSwapped(a) ==
    IF ValidateCurrentState(a) # NoError THEN ValidateCurrentState(a)
    ELSE IF ValidateStateCost(a) # NoError THEN ValidateStateCost(a)
    ELSE IF ValidateActionCost(a) # NoError THEN ValidateActionCost(a)
    ELSE IF ValidateActionTransition(a) # NoError THEN ValidateActionTransition(a)
    ELSE IF ValidateStateTransition(a) # NoError THEN ValidateStateTransition(a)
    ELSE IF ValidateHorizon(a) # NoError THEN ValidateHorizon(a)
    ELSE ValidateFinalCost(a)

\* lines 45-93: the exception the validation raises, NoError when it passes.
\* A group is evaluated only when the groups before it passed.
ValidationError(a) ==
    IF ValidateCurrentState(a) # NoError THEN ValidateCurrentState(a)
    ELSE IF ValidateStateCost(a) # NoError THEN ValidateStateCost(a)
    ELSE IF ValidateActionCost(a) # NoError THEN ValidateActionCost(a)
    ELSE IF ValidateStateTransition(a) # NoError THEN ValidateStateTransition(a)
    ELSE IF ValidateActionTransition(a) # NoError THEN ValidateActionTransition(a)
    ELSE IF ValidateHorizon(a) # NoError THEN ValidateHorizon(a)
    ELSE ValidateFinalCost(a)

\* the final cost defaulting to the zero matrix
FinalCost_DefaultZero(a) ==
    IF a.final_state_cost_mat # None THEN a.final_state_cost_mat.v
    ELSE MatSub(a.state_cost_mat.v, a.state_cost_mat.v)

\* lines 82, 92-93: final_state_cost_mat after the validation
FinalCost(a) ==
    IF a.final_state_cost_mat # None THEN a.final_state_cost_mat.v
    ELSE a.state_cost_mat.v

(***************************************************************************)
(* The arithmetic of one backward step and of one forward step.            *)
(***************************************************************************)
\* action_cost_mat + action_transition_mat.T @ P @ action_transition_mat
GainDenominator(a, Pn) ==
    MatAdd(a.action_cost_mat.v,
           MatMul(MatMul(Transpose(a.action_transition_mat.v), Pn),
                  a.action_transition_mat.v))

\* the Riccati step with the inverse of action_cost_mat alone, as in the
\* continuous-time equation
RiccatiStep_InverseOfR(a, Pt) ==
    LET A == a.state_transition_mat.v
        B == a.action_transition_mat.v
    IN  MatSub(MatAdd(a.state_cost_mat.v, MatMul(MatMul(Transpose(A), Pt), A)),
               MatMul(MatMul(MatMul(MatMul(Transpose(A), Pt), B),
                             Pinv(a.action_cost_mat.v)),
                      MatMul(MatMul(Transpose(B), Pt), A)))

\* the Riccati step with state_transition_mat not transposed
RiccatiStep_NoTranspose(a, Pt) ==
    LET A == a.state_transition_mat.v
        B == a.action_transition_mat.v
    IN  MatSub(MatAdd(a.state_cost_mat.v, MatMul(MatMul(A, Pt), A)),
               MatMul(MatMul(MatMul(MatMul(A, Pt), B),
                             Pinv(GainDenominator(a, Pt))),
                      MatMul(MatMul(Transpose(B), Pt), A)))

\* the right-hand side of the assignment to P[t-1], from Pt = P[t]
RiccatiStep(a, Pt) ==
    LET A == a.state_transition_mat.v
        B == a.action_transition_mat.v
    IN  MatSub(MatAdd(a.state_cost_mat.v, MatMul(MatMul(Transpose(A), Pt), A)),
               MatMul(MatMul(MatMul(MatMul(Transpose(A), Pt), B),
                             Pinv(GainDenominator(a, Pt))),
                      MatMul(MatMul(Transpose(B), Pt), A)))

\* the gain without its sign
Gain_NoMinus(a, Pn) ==
    MatMul(MatMul(MatMul(Pinv(GainDenominator(a, Pn)),
                         Transpose(a.action_transition_mat.v)),
                  Pn),
           a.state_transition_mat.v)

\* the gain K of a forward step, from Pn = P[t+1]
Gain(a, Pn) ==
    MatMul(MatMul(MatMul(MatNeg(Pinv(GainDenominator(a, Pn))),
                         Transpose(a.action_transition_mat.v)),
                  Pn),
           a.state_transition_mat.v)

\* the state of the rollout never advanced: every action computed from x_0
NextState_Stale(a, xt, u) == xt

\* the next state without the uncontrolled dynamics
NextState_NoDynamics(a, xt, u) ==
    VecAdd(xt, MatVec(a.action_transition_mat.v, u))

\* state_transition_mat @ x + action_transition_mat @ u
NextState(a, xt, u) ==
    VecAdd(MatVec(a.state_transition_mat.v, xt), MatVec(a.action_transition_mat.v, u))

\* the assignment writing P[t] instead of P[t-1]
StoreCostToGo_AtT(Pl, tt, rhs) == [Pl EXCEPT ![tt + 1] = rhs]

\* P[t-1] = rhs: the list after the assignment (the code's P[k] is Pl[k + 1])
StoreCostToGo(Pl, tt, rhs) == [Pl EXCEPT ![tt] = rhs]

\* the recursion accumulating into P[t] in place: at t = time_horizon P[t] is
\* the caller's final_state_cost_mat (state_cost_mat when none was given)
ArgsAfterStore_InPlace(a, tt, rhs) ==
    IF tt # a.time_horizon.v THEN a
    ELSE IF a.final_state_cost_mat # None
         THEN [a EXCEPT !.final_state_cost_mat.v = rhs]
         ELSE [a EXCEPT !.state_cost_mat.v = rhs]

\* lines 96, 99: the arguments after P[t-1] = rhs.  rhs is a new array and the
\* assignment binds slot t-1 of the list; the caller's matrix bound to slot
\* time_horizon is read, never written
ArgsAfterStore(a, tt, rhs) == a

\* lines 106, 112: the arguments after x = A @ x + B @ u.  x starts as
\* np.copy(current_state) and is rebound to a new array
ArgsAfterAdvance(a, xn) == a

\* the backward loop stopping at t = 2: P[0] never assigned
BackwardRange_SkipsLast(h) == 2..h

\* range(time_horizon, 0, -1)
BackwardRange(h) == 1..h

\* the gain of step t computed from P[t] instead of P[t + 1]
CostToGoForGain_Current(Pl, tt) == Pl[tt + 1]

\* line 108: the entry P[t + 1] read by forward step t (the code's P[k] is Pl[k + 1])
CostToGoForGain(Pl, tt) == Pl[tt + 2]

\* the forward loop stopping one step early
ForwardRange_Short(h) == 0..(h - 2)

\* range(0, time_horizon)
ForwardRange(h) == 0..(h - 1)

(***************************************************************************)
(* Inputs of the calls.                                                    *)
(***************************************************************************)
CurrentStates ==
    { Arr1(<<5>>), Arr1(<<1, -2>>), Arr2(<< <<5>> >>), NotArray }

TargetStates ==
    { Arr1(<<0>>), NotArray }

StateCostMats ==
    { Arr2(<< <<1>> >>), Arr2(<< <<0>> >>), Arr2(<< <<-1>> >>),
      Arr2(<< <<2, 1>>, <<1, 2>> >>), Arr2(<< <<1, 0>>, <<0, 0>> >>),
      Arr2(<< <<1, 1>>, <<0, 1>> >>), Arr1(<<1>>), NotArray }

ActionCostMats ==
    { Arr2(<< <<1>> >>), Arr2(<< <<2>> >>), Arr2(<< <<0>> >>),
      Arr2(<< <<2, 1>>, <<1, 1>> >>), NotArray }

StateTransitionMats ==
    { Arr2(<< <<1>> >>), Arr2(<< <<-2>> >>), Arr2(<< <<1, 1>>, <<0, 1>> >>),
      Arr1(<<1>>), NotArray }

ActionTransitionMats ==
    { Arr2(<< <<1>> >>), Arr2(<< <<0>> >>), Arr2(<< <<1, 0>> >>), Arr2(<< <<0, 0>> >>),
      Arr2(<< <<0>>, <<1>> >>), Arr2(<< <<0>>, <<0>> >>),
      Arr2(<< <<1, 0>>, <<1, 1>> >>), Arr1(<<1>>), NotArray }

TimeHorizons ==
    { IntVal(k) : k \in -1..MaxHorizon } \cup { FloatVal(1) }

FinalStateCostMats ==
    { None, Arr2(<< <<1>> >>), Arr2(<< <<3>> >>), Arr2(<< <<0, 0>>, <<0, 1>> >>),
      Arr2(<< <<1, 1>>, <<0, 1>> >>), NotArray }

Inputs ==
    [ current_state : CurrentStates,
      target_state : TargetStates,
      state_cost_mat : StateCostMats,
      action_cost_mat : ActionCostMats,
      state_transition_mat : StateTransitionMats,
      action_transition_mat : ActionTransitionMats,
      time_horizon : TimeHorizons,
      final_state_cost_mat : FinalStateCostMats ]

\* the inputs of the calls that follow one another or run side by side
ScalarInputs ==
    [ current_state : { Arr1(<<5>>), NotArray },
      target_state : { Arr1(<<0>>) },
      state_cost_mat : { Arr2(<< <<1>> >>) },
      action_cost_mat : { Arr2(<< <<1>> >>), Arr2(<< <<2, 1>>, <<1, 1>> >>) },
      state_transition_mat : { Arr2(<< <<-2>> >>) },
      action_transition_mat : { Arr2(<< <<1>> >>) },
      time_horizon : { IntVal(0), IntVal(1), IntVal(MaxHorizon) },
      final_state_cost_mat : { None, Arr2(<< <<3>> >>) } ]

PlanarInputs ==
    [ current_state : { Arr1(<<1, -2>>) },
      target_state : { Arr1(<<0>>) },
      state_cost_mat : { Arr2(<< <<2, 1>>, <<1, 2>> >>) },
      action_cost_mat : { Arr2(<< <<1>> >>) },
      state_transition_mat : { Arr2(<< <<1, 1>>, <<0, 1>> >>) },
      action_transition_mat : { Arr2(<< <<0>>, <<1>> >>) },
      time_horizon : { IntVal(MaxHorizon) },
      final_state_cost_mat : { None, Arr2(<< <<0, 0>>, <<0, 1>> >>) } ]

SmallInputs == ScalarInputs \cup PlanarInputs

\* the arguments of no call
NoArgs == [ current_state |-> None, target_state |-> None, state_cost_mat |-> None,
            action_cost_mat |-> None, state_transition_mat |-> None,
            action_transition_mat |-> None, time_horizon |-> IntVal(0),
            final_state_cost_mat |-> None ]

(***************************************************************************)
(* State: one invocation of linear_quadratic_regulator.                    *)
(***************************************************************************)
VARIABLES
    pc,        \* position of the invocation in the function
    args,      \* its arguments
    P,         \* the list P; P[k + 1] is the code's P[k]
    t,         \* the loop variable of the running loop
    K,         \* the gain of the last forward step
    x,         \* the predicted state of the rollout
    actions,   \* the list of actions
    err,       \* the exception raised, NoError when none
    other      \* the frame of a second invocation, suspended in another thread

(***************************************************************************)
(* State: one run of evaluate_policy (evaluation.py) on an environment.    *)
(* The environment is any RlEnv; calls records the calls it receives.      *)
(***************************************************************************)
VARIABLES
    epc,         \* position of the run in evaluate_policy
    eargs,       \* its arguments
    eleft,       \* iterations of the for loop not yet started
    eobs,        \* obs: the most recent observation
    rewards,     \* the list rewards
    scada_data,  \* the records concatenated into scada_data
    terminated,  \* terminated of the last step
    calls,       \* the calls made to the environment and the policy, in order
    eerr         \* the exception raised, NoError when none

evalVars == <<epc, eargs, eleft, eobs, rewards, scada_data, terminated, calls, eerr>>

(***************************************************************************)
(* State: one construction of a HydraulicControlEnv                        *)
(* (hydraulic_control_env.py, RlEnv.__init__ of rl_env.py).                *)
(***************************************************************************)
VARIABLES
    hpc,            \* position of the construction in __init__
    hargs,          \* the four action space arguments
    my_actions,     \* the list my_actions
    action_space,   \* the keys of the dictionary action_space
    action_spaces,  \* the field _action_spaces of the environment (RlEnv)
    herr            \* the exception raised, NoError when none

hydVars == <<hpc, hargs, my_actions, action_space, action_spaces, herr>>

(***************************************************************************)
(* State: one AdvancedQualityControlEnv (advanced_quality_control_env.py), *)
(* from its construction through its resets.  Python's True, False and 1   *)
(* and a keyword that is not passed are the strings "True", "False", "1"   *)
(* and "absent".                                                           *)
(***************************************************************************)
VARIABLES
    apc,                          \* position of the environment in its life
    aargs,                        \* the arguments of the constructor
    rerun_hydraulics_when_reset,  \* the field _rerun_hydraulics_when_reset
    reload_scenario_when_reset,   \* the field _reload_scenario_when_reset
    scenario_sim,                 \* the field _scenario_sim: "None" or "loaded"
    reset_result,                 \* the outcome of the last call of reset
    aerr                          \* the exception raised by __init__, NoError when none

aqVars ==
    <<apc, aargs, rerun_hydraulics_when_reset, reload_scenario_when_reset,
      scenario_sim, reset_result, aerr>>

(***************************************************************************)
(* State: one call of StateTransitionSurrogate.fit_to_env (surrogates.py). *)
(***************************************************************************)
VARIABLES
    fpc,              \* position of the call in fit_to_env
    fargs,            \* its arguments n_max_iter and policy
    fleft,            \* iterations of the for loop not yet started
    control_actions,  \* the list control_actions
    fscada,           \* the records concatenated into the local scada_data
    fsteps,           \* the value of terminated of every call of env.step
    fitted,           \* the arguments handed to fit_to_scada
    ferr              \* the exception raised, NoError when none

fitVars == <<fpc, fargs, fleft, control_actions, fscada, fsteps, fitted, ferr>>

envVars == <<evalVars, hydVars, aqVars, fitVars>>

lqrVars == <<pc, args, P, t, K, x, actions, err, other>>

vars == <<lqrVars, envVars>>

\* what a step of one program leaves alone: the state of the other programs
notEvalVars == <<lqrVars, hydVars, aqVars, fitVars>>
notHydVars == <<lqrVars, evalVars, aqVars, fitVars>>
notAqVars == <<lqrVars, evalVars, hydVars, fitVars>>
notFitVars == <<lqrVars, evalVars, hydVars, aqVars>>

\* the frame of the running invocation: its position, arguments and locals
Frame ==
    [ pc |-> pc, args |-> args, P |-> P, t |-> t, K |-> K, x |-> x,
      actions |-> actions, err |-> err ]

T == args.time_horizon.v

\* no run of evaluate_policy has been started
NoEvalArgs == [env_is_rlenv |-> FALSE, policy_callable |-> FALSE, n_max_iter |-> IntVal(0)]

EvalInit ==
    /\ epc = "idle"
    /\ eargs = NoEvalArgs
    /\ eleft = 0
    /\ eobs = 0
    /\ rewards = <<>>
    /\ scada_data = <<>>
    /\ terminated = FALSE
    /\ calls = <<>>
    /\ eerr = NoError

\* a Python value given where a list of action spaces is expected: None, a
\* list or a tuple of action spaces; an action space is its class and the
\* id of the element it controls
NoList == [kind |-> "NoneType", items |-> <<>>]
ListOf(its) == [kind |-> "list", items |-> its]
TupleOf(its) == [kind |-> "tuple", items |-> its]
Space(cls, id) == [cls |-> cls, id |-> id]

\* no construction has been started
NoHydArgs ==
    [ pumps_speed_action_space |-> NoList, pumps_state_action_space |-> NoList,
      valves_state_action_space |-> NoList, chemical_injection_action_space |-> NoList ]

HydInit ==
    /\ hpc = "idle"
    /\ hargs = NoHydArgs
    /\ my_actions = <<>>
    /\ action_space = {}
    /\ action_spaces = <<>>
    /\ herr = NoError

\* no AdvancedQualityControlEnv has been constructed
NoAqArgs ==
    [ action_space |-> NoList, rerun_hydraulics_when_reset |-> "absent",
      reload_scenario_when_reset |-> "absent" ]

\* reset has not been called
NoResult == [outcome |-> "none", first |-> "none", info |-> {}]

AqInit ==
    /\ apc = "idle"
    /\ aargs = NoAqArgs
    /\ rerun_hydraulics_when_reset = "unset"
    /\ reload_scenario_when_reset = "unset"
    /\ scenario_sim = "None"
    /\ reset_result = NoResult
    /\ aerr = NoError

\* no call of fit_to_env has been started
NoFitArgs == [n_max_iter |-> [kind |-> "NoneType", v |-> 0], policy_given |-> FALSE]

\* fit_to_scada has not been called
NotFitted == [n_actions |-> 0, n_records |-> 0]

FitInit ==
    /\ fpc = "idle"
    /\ fargs = NoFitArgs
    /\ fleft = 0
    /\ control_actions = <<>>
    /\ fscada = <<>>
    /\ fsteps = <<>>
    /\ fitted = NotFitted
    /\ ferr = NoError

EnvInit ==
    /\ EvalInit
    /\ HydInit
    /\ AqInit
    /\ FitInit

Init ==
    /\ pc = "idle"
    /\ args = NoArgs
    /\ P = <<>>
    /\ t = 0
    /\ K = <<>>
    /\ x = <<>>
    /\ actions = <<>>
    /\ err = NoError
    /\ other = Frame
    /\ EnvInit

\* the function is called, with any of the inputs as arguments
Call ==
    /\ pc = "idle"
    /\ \E a \in Inputs : args' = a
    /\ pc' = "validate"
    /\ UNCHANGED <<P, t, K, x, actions, err, other, envVars>>

\* lines 45-93: the checks on the arguments
Validate ==
    /\ pc = "validate"
    /\ IF ValidationError(args) # NoError
       THEN /\ pc' = "raised"
            /\ err' = ValidationError(args)
       ELSE /\ pc' = "alloc"
            /\ err' = err
    /\ UNCHANGED <<args, P, t, K, x, actions, other, envVars>>

\* lines 95-96: P = [None] * (time_horizon + 1); P[time_horizon] = final cost
AllocP ==
    /\ pc = "alloc"
    /\ P' = [k \in 1..(T + 1) |-> IF k = T + 1 THEN FinalCost(args) ELSE NoneM]
    /\ t' = T
    /\ pc' = "backward"
    /\ UNCHANGED <<args, K, x, actions, err, other, envVars>>

\* lines 98-103: one iteration of the backward loop, t = time_horizon .. 1
BackwardStep ==
    /\ pc = "backward"
    /\ t \in BackwardRange(T)
    /\ LET rhs == RiccatiStep(args, P[t + 1])
       IN  IF rhs = Bad
           THEN /\ pc' = "raised"
                /\ err' = "ValueError: operands"
                /\ UNCHANGED <<P, t, args>>
           ELSE /\ P' = StoreCostToGo(P, t, rhs)
                /\ args' = ArgsAfterStore(args, t, rhs)
                /\ t' = t - 1
                /\ UNCHANGED <<pc, err>>
    /\ UNCHANGED <<K, x, actions, other, envVars>>

\* the list of actions kept from one call to the next, not created by the call
InitRollout_KeepsActions ==
    /\ pc = "backward"
    /\ t \notin BackwardRange(T)
    /\ actions' = actions
    /\ x' = Vec(args.current_state)
    /\ t' = 0
    /\ pc' = "forward"
    /\ UNCHANGED <<args, P, K, err, other, envVars>>

\* lines 105-106: actions = []; x = np.copy(current_state)
InitRollout ==
    /\ pc = "backward"
    /\ t \notin BackwardRange(T)
    /\ actions' = <<>>
    /\ x' = Vec(args.current_state)
    /\ t' = 0
    /\ pc' = "forward"
    /\ UNCHANGED <<args, P, K, err, other, envVars>>

\* lines 107-113: one iteration of the forward loop, t = 0 .. time_horizon - 1
ForwardStep ==
    /\ pc = "forward"
    /\ t \in ForwardRange(T)
    /\ LET gain == Gain(args, CostToGoForGain(P, t))
           u == MatVec(gain, x)
           xn == NextState(args, x, u)
       IN  IF xn = Bad
           THEN /\ pc' = "raised"
                /\ err' = "ValueError: operands"
                /\ UNCHANGED <<K, x, actions, t, args>>
           ELSE /\ K' = gain
                /\ x' = xn
                /\ args' = ArgsAfterAdvance(args, xn)
                /\ actions' = Append(actions, u)
                /\ t' = t + 1
                /\ UNCHANGED <<pc, err>>
    /\ UNCHANGED <<P, other, envVars>>

\* line 115: return actions
Return ==
    /\ pc = "forward"
    /\ t \notin ForwardRange(T)
    /\ pc' = "returned"
    /\ UNCHANGED <<args, P, t, K, x, actions, err, other, envVars>>

\* the invocation is over: its locals are gone, the next call can be made
Discard ==
    /\ pc \in {"returned", "raised"}
    /\ pc' = "idle"
    /\ args' = NoArgs
    /\ P' = <<>>
    /\ t' = 0
    /\ K' = <<>>
    /\ x' = <<>>
    /\ actions' = <<>>
    /\ err' = NoError
    /\ UNCHANGED <<other, envVars>>

Next ==
    \/ Call
    \/ Validate
    \/ AllocP
    \/ BackwardStep
    \/ InitRollout
    \/ ForwardStep
    \/ Return
    \/ Discard

Spec == Init /\ [][Next]_vars

(***************************************************************************)
(* Calls that follow one another.  The function has no state outside its   *)
(* parameters and locals (no global, no default argument, no attribute),   *)
(* so the next call finds nothing of the earlier ones.  Here the locals    *)
(* of the earlier call are left as they were when the next call starts:    *)
(* a local read before the call assigns it would carry the earlier call's  *)
(* value into the outcome.                                                 *)
(***************************************************************************)
\* the first call
CallSmall ==
    /\ pc = "idle"
    /\ \E a \in SmallInputs : args' = a
    /\ pc' = "validate"
    /\ UNCHANGED <<P, t, K, x, actions, err, other, envVars>>

\* the next call, made after the earlier one returned or raised
CallAgain ==
    /\ pc \in {"returned", "raised"}
    /\ \E a \in SmallInputs : args' = a
    /\ pc' = "validate"
    /\ err' = NoError
    /\ UNCHANGED <<P, t, K, x, actions, other, envVars>>

NextReuse ==
    \/ CallSmall
    \/ Validate
    \/ AllocP
    \/ BackwardStep
    \/ InitRollout
    \/ ForwardStep
    \/ Return
    \/ CallAgain

SpecReuse == Init /\ [][NextReuse]_vars

(***************************************************************************)
(* Two invocations in two threads.  One runs, the other is suspended; the  *)
(* scheduler may switch between them before any step, so the steps of the  *)
(* two interleave in every order.  What an invocation owns is its frame:   *)
(* the parameters and the locals P, t, K, x and actions.                   *)
(***************************************************************************)
\* the list of actions shared by the two invocations, not a local of each
Switch_SharedActions ==
    /\ other' = Frame
    /\ pc' = other.pc
    /\ args' = other.args
    /\ P' = other.P
    /\ t' = other.t
    /\ K' = other.K
    /\ x' = other.x
    /\ actions' = actions
    /\ err' = other.err
    /\ UNCHANGED envVars

\* the running invocation is suspended and the other one resumed
Switch ==
    /\ other' = Frame
    /\ pc' = other.pc
    /\ args' = other.args
    /\ P' = other.P
    /\ t' = other.t
    /\ K' = other.K
    /\ x' = other.x
    /\ actions' = other.actions
    /\ err' = other.err
    /\ UNCHANGED envVars

NextThreads ==
    \/ CallSmall
    \/ Validate
    \/ AllocP
    \/ BackwardStep
    \/ InitRollout
    \/ ForwardStep
    \/ Return
    \/ Discard
    \/ Switch

SpecThreads == Init /\ [][NextThreads]_vars

(***************************************************************************)
(* linear_quadratic_regulator as a function of its arguments: the outcome  *)
(* of a whole call, computed statement by statement as above.              *)
(***************************************************************************)
\* the code's P[k] at the end of the backward loop of a call with arguments a
RECURSIVE CostToGo(_, _)
CostToGo(a, k) ==
    IF k >= a.time_horizon.v THEN FinalCost(a)
    ELSE RiccatiStep(a, CostToGo(a, k + 1))

\* the actions appended by the forward steps k, k + 1, ..., from state xk
RECURSIVE Rollout(_, _, _)
Rollout(a, k, xk) ==
    IF k \notin ForwardRange(a.time_horizon.v) THEN <<>>
    ELSE LET u == MatVec(Gain(a, CostToGo(a, k + 1)), xk)
         IN  <<u>> \o Rollout(a, k + 1, NextState(a, xk, u))

\* the outcome of the call: returned with (P, actions), or raised with err
LQR(a) ==
    IF ValidationError(a) # NoError
    THEN [status |-> "raised", err |-> ValidationError(a), P |-> <<>>, actions |-> <<>>]
    ELSE LET h == a.time_horizon.v
             Pl == Seq1([k \in 1..(h + 1) |-> CostToGo(a, k - 1)])
             us == Rollout(a, 0, Vec(a.current_state))
         IN  IF (\E k \in 1..(h + 1) : Pl[k] = Bad) \/ (\E k \in 1..Len(us) : us[k] = Bad)
             THEN [status |-> "raised", err |-> "ValueError: operands",
                   P |-> <<>>, actions |-> <<>>]
             ELSE [status |-> "returned", err |-> NoError, P |-> Pl, actions |-> us]

(***************************************************************************)
(* The conditions the specification puts on the arguments: current_state a *)
(* 1-D array of length n, Q n x n symmetric PSD, R m x m symmetric PD with *)
(* m the number of columns of B, A n x n, B 2-D with n rows, T a positive  *)
(* integer, Qf n x n symmetric PSD when supplied.                          *)
(***************************************************************************)
WellPosed(a) ==
    /\ IsNdarray(a.current_state) /\ a.current_state.ndim = 1
    /\ IsNdarray(a.state_cost_mat) /\ a.state_cost_mat.ndim = 2
    /\ Shape(a.state_cost_mat) = <<StateDim(a), StateDim(a)>>
    /\ is_mat_spsd(a.state_cost_mat)
    /\ IsNdarray(a.state_transition_mat) /\ a.state_transition_mat.ndim = 2
    /\ Shape(a.state_transition_mat) = <<StateDim(a), StateDim(a)>>
    /\ IsNdarray(a.action_transition_mat) /\ a.action_transition_mat.ndim = 2
    /\ Shape(a.action_transition_mat)[1] = StateDim(a)
    /\ IsNdarray(a.action_cost_mat) /\ a.action_cost_mat.ndim = 2
    /\ Shape(a.action_cost_mat)
         = <<Shape(a.action_transition_mat)[2], Shape(a.action_transition_mat)[2]>>
    /\ is_mat_spd(a.action_cost_mat)
    /\ a.time_horizon.kind = "int" /\ a.time_horizon.v > 0
    /\ \/ a.final_state_cost_mat = None
       \/ /\ IsNdarray(a.final_state_cost_mat) /\ a.final_state_cost_mat.ndim = 2
          /\ Shape(a.final_state_cost_mat) = <<StateDim(a), StateDim(a)>>
          /\ is_mat_spsd(a.final_state_cost_mat)

\* the call has been made and its validation has run
Validated == pc \notin {"idle", "validate"}

\* the final state cost the caller asked for
RequestedFinalCost ==
    IF args.final_state_cost_mat # None THEN args.final_state_cost_mat.v
    ELSE args.state_cost_mat.v

(***************************************************************************)
(* C1: every call that returns, returns a list of exactly time_horizon     *)
(* control vectors, one appended per forward step t = 0, 1, ... in that    *)
(* order; the list is never shorter or longer.                             *)
(***************************************************************************)
C1_OutputLength ==
    /\ pc = "forward" => Len(actions) = t
    /\ pc = "returned" => Len(actions) = T

C1_Witness == pc = "returned" /\ T >= 2 /\ Len(actions) = T

(***************************************************************************)
(* C2: in the scalar case n = m = 1 with time_horizon = 1 the single       *)
(* returned action is -(B*Qf*A / (R + B*Qf*B)) * current_state; with       *)
(* A = B = Q = R = Qf = 1 and current_state = 5 the result is [[-2.5]].    *)
(***************************************************************************)
IsScalarProblem(a) ==
    /\ Shape(a.current_state) = <<1>>
    /\ Shape(a.action_transition_mat) = <<1, 1>>
    /\ Shape(a.action_cost_mat) = <<1, 1>>

One == Arr2(<< <<1>> >>)

ScalarExample(a) ==
    /\ a.current_state = Arr1(<<5>>)
    /\ a.state_cost_mat = One /\ a.action_cost_mat = One
    /\ a.state_transition_mat = One /\ a.action_transition_mat = One
    /\ a.final_state_cost_mat = One
    /\ a.time_horizon = IntVal(1)

C2_ScalarClosedForm ==
    /\ (pc = "returned" /\ IsScalarProblem(args) /\ T = 1) =>
         LET A == args.state_transition_mat.v[1][1]
             B == args.action_transition_mat.v[1][1]
             R == args.action_cost_mat.v[1][1]
             Qf == RequestedFinalCost[1][1]
             x0 == Vec(args.current_state)[1]
         IN  actions = << << RMul(RNeg(RDiv(RMul(RMul(B, Qf), A),
                                            RAdd(R, RMul(RMul(B, Qf), B)))), x0) >> >>
    /\ (pc = "returned" /\ ScalarExample(args)) => actions = << << Rat(-5, 2) >> >>

C2_Witness == pc = "returned" /\ ScalarExample(args) /\ actions = << << <<-5, 2>> >> >>

(***************************************************************************)
(* C3: once the list P exists, its entry at index time_horizon is the      *)
(* supplied final_state_cost_mat (state_cost_mat when none was supplied),  *)
(* at every later step: the recursion never writes that index.             *)
(***************************************************************************)
C3_TerminalCost ==
    P # <<>> => Len(P) = T + 1 /\ P[T + 1] = RequestedFinalCost

C3_Witness ==
    /\ pc = "returned" /\ T >= 2
    /\ args.final_state_cost_mat # None
    /\ P[T + 1] = args.final_state_cost_mat.v
    /\ P[T] # P[T + 1]

(***************************************************************************)
(* C4 as stated: a call with a non-symmetric state_cost_mat raises the     *)
(* not-positive-semi-definite error, before any recursion step and         *)
(* without returning a control sequence.                                   *)
(***************************************************************************)
NonSymmetricStateCost(a) ==
    /\ IsNdarray(a.state_cost_mat) /\ a.state_cost_mat.ndim = 2
    /\ ~IsSymmetric(a.state_cost_mat.v)

C4_AlwaysNotPsdError ==
    (Validated /\ NonSymmetricStateCost(args)) =>
        /\ pc = "raised" /\ err = "ValueError: state_cost_mat spsd"
        /\ P = <<>> /\ actions = <<>>

(***************************************************************************)
(* C4 amended: a call with a non-symmetric state_cost_mat raises during    *)
(* the validation, before any recursion step and without returning a       *)
(* control sequence; the error is the not-positive-semi-definite error     *)
(* when current_state is a 1-D array (the checks on current_state run      *)
(* before the checks on state_cost_mat).                                   *)
(***************************************************************************)
C4_FailFastOnAsymmetry ==
    (Validated /\ NonSymmetricStateCost(args)) =>
        /\ pc = "raised" /\ P = <<>> /\ actions = <<>>
        /\ (IsNdarray(args.current_state) /\ args.current_state.ndim = 1)
              => err = "ValueError: state_cost_mat spsd"

C4_Witness ==
    /\ pc = "raised" /\ NonSymmetricStateCost(args)
    /\ err = "ValueError: state_cost_mat spsd"
    /\ Shape(args.current_state) = <<1>>

(***************************************************************************)
(* C5 as stated: a call with time_horizon 0 or negative raises the         *)
(* invalid-horizon error and returns no control sequence.                  *)
(***************************************************************************)
NonPositiveHorizon(a) == a.time_horizon.kind = "int" /\ a.time_horizon.v <= 0

C5_AlwaysHorizonError ==
    (Validated /\ NonPositiveHorizon(args)) =>
        pc = "raised" /\ err = "ValueError: time_horizon"

(***************************************************************************)
(* C5 amended: a call with time_horizon 0 or negative raises during the    *)
(* validation and returns no control sequence; the error is the invalid-   *)
(* horizon error when the checks that run before it (on current_state,     *)
(* state_cost_mat, action_cost_mat, state_transition_mat and               *)
(* action_transition_mat) all pass.                                        *)
(***************************************************************************)
ChecksBeforeHorizonPass(a) ==
    /\ ValidateCurrentState(a) = NoError
    /\ ValidateStateCost(a) = NoError
    /\ ValidateActionCost(a) = NoError
    /\ ValidateStateTransition(a) = NoError
    /\ ValidateActionTransition(a) = NoError

C5_InvalidHorizon ==
    (Validated /\ NonPositiveHorizon(args)) =>
        /\ pc = "raised" /\ P = <<>> /\ actions = <<>>
        /\ ChecksBeforeHorizonPass(args) => err = "ValueError: time_horizon"

C5_Witness ==
    /\ pc = "raised" /\ err = "ValueError: time_horizon"
    /\ args.time_horizon = IntVal(0)

(***************************************************************************)
(* C6: every call whose arguments violate one of the conditions of the     *)
(* validator (WellPosed) fails during the validation, before the list P    *)
(* is created or any cost-to-go matrix is assigned.                        *)
(***************************************************************************)
C6_FailFast ==
    (Validated /\ ~WellPosed(args)) => (pc = "raised" /\ P = <<>>)

(***************************************************************************)
(* C7: every call that passes the validation returns: no exception is      *)
(* raised by the backward recursion or by the rollout.                     *)
(***************************************************************************)
C7_TotalOnValidated ==
    pc = "raised" => ValidationError(args) # NoError

(***************************************************************************)
(* C8: with action_transition_mat the zero matrix and the arguments        *)
(* otherwise well-posed, the call does not raise, every gain K is zero,    *)
(* every action is the zero vector, and the predicted state after t        *)
(* forward steps is A^t applied to current_state.                          *)
(***************************************************************************)
\* A^k applied to x0
RECURSIVE Uncontrolled(_, _, _)
Uncontrolled(A, x0, k) == IF k = 0 THEN x0 ELSE MatVec(A, Uncontrolled(A, x0, k - 1))

ZeroActionChannel(a) == WellPosed(a) /\ IsZeroMat(a.action_transition_mat.v)

C8_DegenerateChannel ==
    (Validated /\ ZeroActionChannel(args)) =>
        /\ pc # "raised"
        /\ K # <<>> => IsZeroMat(K)
        /\ \A i \in 1..Len(actions) : IsZeroVec(actions[i])
        /\ pc \in {"forward", "returned"} =>
              x = Uncontrolled(args.state_transition_mat.v, Vec(args.current_state), t)

C8_Witness ==
    /\ pc = "returned" /\ ZeroActionChannel(args) /\ T >= 2
    /\ Len(actions) = T /\ IsZeroMat(K)
    /\ x # Vec(args.current_state)

(***************************************************************************)
(* C9: every cost-to-go matrix in the list P is symmetric, at every step   *)
(* of every call that passed the validation.                               *)
(***************************************************************************)
C9_Symmetric ==
    \A k \in 1..Len(P) : P[k] # NoneM => IsSymmetric(P[k])

C9_Witness ==
    /\ pc = "returned" /\ T >= 2
    /\ Rows(P[1]) = 2 /\ ~RIsZero(P[1][1][2])
    /\ P[1] # P[2]

(***************************************************************************)
(* C10: a call without final_state_cost_mat has the outcome of the call    *)
(* with final_state_cost_mat = state_cost_mat and the other arguments      *)
(* equal: the same error, or the same list P and the same actions.         *)
(***************************************************************************)
C10_DefaultFinalCost ==
    (pc \in {"returned", "raised"} /\ args.final_state_cost_mat = None) =>
        LET r == LQR([args EXCEPT !.final_state_cost_mat = args.state_cost_mat])
        IN  /\ r.status = pc
            /\ r.err = err
            /\ pc = "returned" => (r.P = P /\ r.actions = actions)

C10_Witness ==
    /\ pc = "returned" /\ args.final_state_cost_mat = None /\ T >= 2
    /\ P[T + 1] = args.state_cost_mat.v
    /\ ~IsZeroVec(actions[1])


(***************************************************************************)
(* C11: the outcome of a call does not depend on target_state: a finished  *)
(* call has the outcome (the same actions, or the same exception) of the   *)
(* call with the same arguments and any other target_state, an array of    *)
(* another length or a value that is no array included.                    *)
(***************************************************************************)
WithTarget(a, tgt) == [a EXCEPT !.target_state = tgt]

C12_NoRetainedState ==
    pc \in {"returned", "raised"} =>
        /\ LQR(args).status = pc
        /\ LQR(args).err = err
        /\ pc = "returned" => LQR(args).actions = actions

\* a call that has finished (here raised) after an earlier call returned actions
C12_Witness ==
    /\ pc = "raised"
    /\ Len(actions) = MaxHorizon
    /\ LQR(args).status = "raised"
    /\ LQR(args).err = err


(***************************************************************************)
(* C13: two invocations with different inputs whose steps (validation,     *)
(* backward steps, forward steps) interleave in any order each finish with *)
(* the outcome they have when run alone; neither reads or alters the P, x  *)
(* or list of actions of the other.                                        *)
(***************************************************************************)
\* the finished invocation with frame f has the outcome of the call run alone
AsAlone(f) ==
    f.pc \in {"returned", "raised"} =>
        LET o == LQR(f.args)
        IN  /\ o.status = f.pc
            /\ o.err = f.err
            /\ f.pc = "returned" => o.actions = f.actions /\ o.P = f.P

\* the P, x and actions of a running or suspended rollout are the invocation's own
OwnLocals(f) ==
    f.pc = "forward" =>
        /\ \A k \in 1..Len(f.P) : f.P[k] = CostToGo(f.args, k - 1)
        /\ f.actions = SubSeq(Rollout(f.args, 0, Vec(f.args.current_state)), 1, f.t)
        /\ Len(f.x) = Len(Vec(f.args.current_state))

C13_Isolation ==
    /\ AsAlone(Frame) /\ AsAlone(other)
    /\ OwnLocals(Frame) /\ OwnLocals(other)

\* both invocations returned, with different inputs and different results
C13_Witness ==
    /\ pc = "returned" /\ other.pc = "returned"
    /\ args # other.args
    /\ Len(actions) = MaxHorizon /\ Len(other.actions) = MaxHorizon
    /\ actions # other.actions
    /\ Len(x) # Len(other.x)


(***************************************************************************)
(* C14 as stated: a call given a value that is no numpy array for          *)
(* current_state, state_cost_mat, action_cost_mat, state_transition_mat,   *)
(* action_transition_mat or a supplied final_state_cost_mat fails with the *)
(* invalid-type error, and no recursion or rollout step is executed.       *)
(***************************************************************************)
HasNonArray(a) ==
    \/ ~IsNdarray(a.current_state)
    \/ ~IsNdarray(a.state_cost_mat)
    \/ ~IsNdarray(a.action_cost_mat)
    \/ ~IsNdarray(a.state_transition_mat)
    \/ ~IsNdarray(a.action_transition_mat)
    \/ (a.final_state_cost_mat # None /\ ~IsNdarray(a.final_state_cost_mat))

TypeErrors ==
    { "TypeError: current_state", "TypeError: state_cost_mat", "TypeError: action_cost_mat",
      "TypeError: state_transition_mat", "TypeError: action_transition_mat",
      "TypeError: time_horizon", "TypeError: final_state_cost_mat" }

C14_AlwaysTypeError ==
    (Validated /\ HasNonArray(args)) =>
        pc = "raised" /\ err \in TypeErrors /\ P = <<>> /\ actions = <<>>

(***************************************************************************)
(* C14 amended: such a call fails during the validation, and no recursion  *)
(* or rollout step is executed; the error is the invalid-type error of an  *)
(* argument that is no array when every check that runs before the type    *)
(* check of that argument passes.                                          *)
(***************************************************************************)
C14_NonArrayRejected ==
    (Validated /\ HasNonArray(args)) =>
        /\ pc = "raised" /\ P = <<>> /\ K = <<>> /\ actions = <<>>
        /\ ~IsNdarray(args.current_state) => err = "TypeError: current_state"
        /\ (/\ ValidateCurrentState(args) = NoError
            /\ ~IsNdarray(args.state_cost_mat)) => err = "TypeError: state_cost_mat"
        /\ (/\ ValidateCurrentState(args) = NoError
            /\ ValidateStateCost(args) = NoError
            /\ ~IsNdarray(args.action_cost_mat)) => err = "TypeError: action_cost_mat"
        /\ (/\ ValidateCurrentState(args) = NoError
            /\ ValidateStateCost(args) = NoError
            /\ ValidateActionCost(args) = NoError
            /\ ~IsNdarray(args.state_transition_mat))
               => err = "TypeError: state_transition_mat"
        /\ (/\ ValidateCurrentState(args) = NoError
            /\ ValidateStateCost(args) = NoError
            /\ ValidateActionCost(args) = NoError
            /\ ValidateStateTransition(args) = NoError
            /\ ~IsNdarray(args.action_transition_mat))
               => err = "TypeError: action_transition_mat"
        /\ (/\ ChecksBeforeHorizonPass(args)
            /\ ValidateHorizon(args) = NoError
            /\ args.final_state_cost_mat # None
            /\ ~IsNdarray(args.final_state_cost_mat))
               => err = "TypeError: final_state_cost_mat"

C14_Witness ==
    /\ pc = "raised" /\ err = "TypeError: action_cost_mat"
    /\ args.action_cost_mat = NotArray
    /\ args.final_state_cost_mat = NotArray
    /\ P = <<>> /\ actions = <<>>


(***************************************************************************)
(* C15: the rollout is open-loop on the internally predicted state:        *)
(* x_0 = current_state, x_{t+1} = A x_t + B u_t, and every returned action *)
(* is u_t = K_t x_t for t = 0 .. T-1, K_t being the gain of step t; the    *)
(* actions depend on current_state and the matrices alone.                 *)
(***************************************************************************)
\* x_k of the rollout that produced the actions us
RECURSIVE PredictedState(_, _, _)
PredictedState(a, us, k) ==
    IF k = 0 THEN Vec(a.current_state)
    ELSE VecAdd(MatVec(a.state_transition_mat.v, PredictedState(a, us, k - 1)),
                MatVec(a.action_transition_mat.v, us[k]))

C15_OpenLoop ==
    pc \in {"forward", "returned"} =>
        /\ x = PredictedState(args, actions, Len(actions))
        /\ \A k \in 1..Len(actions) :
               actions[k] = MatVec(Gain(args, P[k + 1]), PredictedState(args, actions, k - 1))
        /\ Len(actions) >= 1 => actions[Len(actions)]
                                  = MatVec(K, PredictedState(args, actions, Len(actions) - 1))
        /\ pc = "returned" => actions = LQR(args).actions

C15_Witness ==
    /\ pc = "returned" /\ T >= 2
    /\ x # Vec(args.current_state)
    /\ PredictedState(args, actions, 1) # Vec(args.current_state)
    /\ ~IsZeroVec(actions[2])
    /\ actions[2] = MatVec(K, PredictedState(args, actions, 1))


(***************************************************************************)
(* C16: the stages of an invocation run in the order validation, backward  *)
(* recursion, forward rollout.  The recursion performs exactly             *)
(* time_horizon steps, writing the indices T-1, T-2, ..., 0 of P in that   *)
(* order, each once and each from the entry already assigned at the next   *)
(* index; all of P[0..T] is assigned before the first gain is computed,    *)
(* and no step reads an entry not yet assigned.                            *)
(***************************************************************************)
\* the code's P[k] has been assigned
Assigned(Pl, k) == k + 1 \in 1..Len(Pl) /\ Pl[k + 1] # NoneM

C16_Stages ==
    /\ pc \in {"idle", "validate", "alloc"} => P = <<>> /\ K = <<>> /\ actions = <<>>
    /\ P # <<>> => ValidationError(args) = NoError /\ Len(P) = T + 1
    /\ pc = "backward" =>
          /\ t \in 0..T /\ K = <<>> /\ actions = <<>>
          /\ \A k \in 0..T : Assigned(P, k) <=> k >= t
    /\ pc \in {"forward", "returned"} => \A k \in 0..T : Assigned(P, k)
    /\ (K # <<>> \/ actions # <<>>) => \A k \in 0..T : Assigned(P, k)

C16_Steps ==
    /\ (pc = "backward" /\ pc' = "backward") =>
          /\ t' = t - 1
          /\ Assigned(P, t) /\ ~Assigned(P, t - 1)
          /\ P' = [P EXCEPT ![t] = RiccatiStep(args, P[t + 1])]
    /\ (pc = "backward" /\ pc' = "forward") => t = 0 /\ P' = P
    /\ (pc = "forward" /\ pc' = "forward") =>
          /\ P' = P /\ t' = t + 1
          /\ Assigned(P, t + 1)
          /\ K' = Gain(args, P[t + 2])
    /\ pc = "validate" => pc' \in {"validate", "alloc", "raised"}
    /\ pc = "alloc" => pc' \in {"alloc", "backward"}
    /\ pc = "backward" => pc' \in {"backward", "forward", "raised"}
    /\ pc = "forward" => pc' \in {"forward", "returned", "raised"}

C16_StageOrder == []C16_Stages /\ [][C16_Steps]_vars

C16_Witness ==
    /\ pc = "returned" /\ T >= 2 /\ Len(P) = T + 1
    /\ \A k \in 0..T : Assigned(P, k)
    /\ P[1] # P[2] /\ P[2] # P[3]


(***************************************************************************)
(* C17: the gain of step t is computed from P[t+1], never from P[t]; the   *)
(* last gain K_{T-1} is computed from P[T], the final cost, alone; P[0] is *)
(* computed by the recursion but never read by the rollout, so it has no   *)
(* influence on the returned actions.                                      *)
(***************************************************************************)
\* the list P with the code's P[0] made unreadable
WithoutP0(Pl) == [Pl EXCEPT ![1] = NoneM]

C17_GainFromNext ==
    pc \in {"forward", "returned"} =>
        /\ t >= 1 => K = Gain(args, P[t + 1])
        /\ pc = "returned" => K = Gain(args, RequestedFinalCost)
        /\ Assigned(P, 0)
        /\ \A k \in 1..Len(actions) :
               actions[k] = MatVec(Gain(args, WithoutP0(P)[k + 1]),
                                   PredictedState(args, actions, k - 1))

\* a returned call whose P[0], P[1] and P[2] give three different gains
C17_Witness ==
    /\ pc = "returned" /\ T = 2
    /\ Gain(args, P[1]) # Gain(args, P[2])
    /\ Gain(args, P[2]) # Gain(args, P[3])
    /\ K = Gain(args, P[3])
    /\ ~IsZeroVec(actions[1])


(***************************************************************************)
(* C18: a call leaves all its arguments unchanged, whether it returns or   *)
(* raises: the rollout advances a copy of current_state, and storing       *)
(* final_state_cost_mat (or state_cost_mat) as P[T] never leads to a write *)
(* into the caller's matrix.                                               *)
(***************************************************************************)
\* no step of a call, from the validation to its return or raise, changes args
C18_NoStepWrites == (pc # "idle" /\ pc' # "idle") => args' = args

\* P[T] keeps the caller's matrix while the rollout state moves away from x_0
C18_Aliases ==
    /\ pc \in {"backward", "forward", "returned"} => P[T + 1] = RequestedFinalCost
    /\ (pc = "forward" /\ t = 0) => x = Vec(args.current_state)
    /\ pc \in {"returned", "raised"} => LQR(args).status = pc

IsPsd(M) ==
    /\ IsSymmetric(M)
    /\ \A i \in 1..Rows(M) : RGeqZero(M[i][i])
    /\ Rows(M) = 2 => RGeqZero(Det2(M))

C19_CostToGoPsd ==
    (Validated /\ WellPosed(args)) =>
        \A k \in 0..T :
            Assigned(P, k) =>
                /\ IsPsd(P[k + 1])
                /\ IsPsd(MatSub(P[k + 1], args.state_cost_mat.v)) \/ k = T
                /\ IsScalarProblem(args) =>
                      /\ RGeqZero(P[k + 1][1][1])
                      /\ k < T => RGeqZero(RSub(P[k + 1][1][1], args.state_cost_mat.v[1][1]))

C19_Witness ==
    /\ pc = "returned" /\ T >= 2 /\ WellPosed(args)
    /\ Rows(P[1]) = 2
    /\ IsPsd(P[1]) /\ IsPsd(P[2])
    /\ P[1] # P[2] /\ P[1] # args.state_cost_mat.v


(***************************************************************************)
(* C20: the validation checks run in one fixed order (current_state type,  *)
(* current_state dimension, Q type, Q PSD test, Q shape, R type, R PD      *)
(* test, A type, A shape, B type, B shape, time_horizon type, time_horizon *)
(* sign, then Qf type, Qf PSD test, Qf shape) and stop at the first        *)
(* failure: the error raised is that of the earliest violated check, and a *)
(* call with no violated check passes the validation.                      *)
(***************************************************************************)
\* the errors of the checks, in the order of the claim
CheckErrors ==
    << "TypeError: current_state", "ValueError: current_state ndim",
       "TypeError: state_cost_mat", "ValueError: state_cost_mat spsd",
       "ValueError: state_cost_mat shape",
       "TypeError: action_cost_mat", "ValueError: action_cost_mat spd",
       "TypeError: state_transition_mat", "ValueError: state_transition_mat shape",
       "TypeError: action_transition_mat", "ValueError: action_transition_mat shape",
       "TypeError: time_horizon", "ValueError: time_horizon",
       "TypeError: final_state_cost_mat", "ValueError: final_state_cost_mat spsd",
       "ValueError: final_state_cost_mat shape" >>

\* check i of the list is violated by the arguments a (asked only when the
\* checks before it are not)
CheckViolated(a, i) ==
    LET n == Shape(a.current_state)[1]
        Qf == a.final_state_cost_mat
    IN  CASE i = 1 -> ~IsNdarray(a.current_state)
          [] i = 2 -> a.current_state.ndim # 1
          [] i = 3 -> ~IsNdarray(a.state_cost_mat)
          [] i = 4 -> ~is_mat_spsd(a.state_cost_mat)
          [] i = 5 -> a.state_cost_mat.ndim # 2 \/ Shape(a.state_cost_mat)[1] # n
          [] i = 6 -> ~IsNdarray(a.action_cost_mat)
          [] i = 7 -> ~is_mat_spd(a.action_cost_mat)
          [] i = 8 -> ~IsNdarray(a.state_transition_mat)
          [] i = 9 -> Shape(a.state_transition_mat) # <<n, n>>
          [] i = 10 -> ~IsNdarray(a.action_transition_mat)
          [] i = 11 -> a.action_transition_mat.ndim # 2
                       \/ Shape(a.action_transition_mat)[1] # n
          [] i = 12 -> a.time_horizon.kind # "int"
          [] i = 13 -> a.time_horizon.v <= 0
          [] i = 14 -> Qf # None /\ ~IsNdarray(Qf)
          [] i = 15 -> Qf # None /\ ~is_mat_spsd(Qf)
          [] i = 16 -> Qf # None /\ (Qf.ndim # 2 \/ Shape(Qf)[1] # n)

\* the first violated check from check i on, 0 when there is none
RECURSIVE FirstViolated(_, _)
FirstViolated(a, i) ==
    IF i > Len(CheckErrors) THEN 0
    ELSE IF CheckViolated(a, i) THEN i
    ELSE FirstViolated(a, i + 1)

C20_CheckOrder ==
    Validated =>
        LET first == FirstViolated(args, 1)
        IN  /\ first # 0 =>
                  pc = "raised" /\ err = CheckErrors[first] /\ P = <<>> /\ actions = <<>>
            /\ first = 0 =>
                  ValidationError(args) = NoError /\ (P # <<>> \/ pc = "alloc")

\* three checks are violated (Q PSD test, R type, time_horizon sign): the
\* error is that of the Q PSD test
C20_Witness ==
    /\ pc = "raised" /\ err = "ValueError: state_cost_mat spsd"
    /\ FirstViolated(args, 1) = 4
    /\ CheckViolated(args, 6) /\ CheckViolated(args, 13)


(***************************************************************************)
(* C21: for inputs that pass the validation, the matrix R + B^T P B handed *)
(* to the pseudo-inverse is nonsingular (strictly positive in the scalar   *)
(* case) at every backward and every forward step, so the pseudo-inverse   *)
(* is the ordinary inverse.                                                *)
(***************************************************************************)
\* a square matrix of order 1 or 2 with non-zero determinant
Nonsingular(M) ==
    /\ ~Unusable(M)
    /\ Rows(M) = Cols(M)
    /\ Rows(M) = 1 => ~RIsZero(M[1][1])
    /\ Rows(M) = 2 => ~RIsZero(Det2(M))

\* the matrix the step about to run hands to np.linalg.pinv
PinvOperand ==
    IF pc = "backward" THEN GainDenominator(args, P[t + 1])
    ELSE GainDenominator(args, CostToGoForGain(P, t))

StepAboutToRun ==
    \/ pc = "backward" /\ t \in BackwardRange(T)
    \/ pc = "forward" /\ t \in ForwardRange(T)

C21_PinvIsInverse ==
    (StepAboutToRun /\ PinvOperand # Bad) =>
        /\ Nonsingular(PinvOperand)
        /\ IsScalarProblem(args) => RGtZero(PinvOperand[1][1])


(***************************************************************************)
(* C22: re-planning is consistent with the plan: when a call with horizon  *)
(* T >= 2 from x_0 returns u_0 .. u_{T-1}, the call with the same          *)
(* matrices, horizon T - 1 and current_state x_1 = A x_0 + B u_0 returns   *)
(* exactly u_1 .. u_{T-1}.                                                 *)
(***************************************************************************)
\* the arguments of the second call, made after the action u0 was applied
Replanned(a, u0) ==
    LET x1 == VecAdd(MatVec(a.state_transition_mat.v, Vec(a.current_state)),
                     MatVec(a.action_transition_mat.v, u0))
    IN  [a EXCEPT !.current_state = [kind |-> "ndarray", ndim |-> 1, v |-> <<x1>>],
                  !.time_horizon = IntVal(a.time_horizon.v - 1)]

C22_Replanning ==
    (pc = "returned" /\ T >= 2) =>
        LET o == LQR(Replanned(args, actions[1]))
        IN  /\ o.status = "returned"
            /\ o.actions = Tail(actions)

C22_Witness ==
    /\ pc = "returned" /\ T >= 2
    /\ \E k \in 2..T : ~IsZeroVec(actions[k])
    /\ Replanned(args, actions[1]).current_state # args.current_state
    /\ LQR(Replanned(args, actions[1])).actions = Tail(actions)


(***************************************************************************)
(* evaluate_policy (evaluation.py).  The environment is an arbitrary       *)
(* RlEnv: reset and step return normally, step with any reward and any     *)
(* terminated flag.  Observations are numbered: reset returns observation  *)
(* 0, the k-th step observation k.  The policy maps observation k to       *)
(* action k.                                                               *)
(***************************************************************************)
EvalInputs ==
    [ env_is_rlenv : BOOLEAN,
      policy_callable : BOOLEAN,
      n_max_iter : { IntVal(k) : k \in -1..MaxIter } \cup { FloatVal(2) } ]

\* the rewards an environment hands out
Rewards == {0, 1}

\* the checks without the one on n_max_iter
EvalValidationError_NoIterCheck(a) ==
    IF ~a.env_is_rlenv THEN "TypeError: env"
    ELSE IF ~a.policy_callable THEN "TypeError: policy"
    ELSE NoError

\* lines 36-43
EvalValidationError(a) ==
    IF ~a.env_is_rlenv THEN "TypeError: env"
    ELSE IF ~a.policy_callable THEN "TypeError: policy"
    ELSE IF a.n_max_iter.kind # "int" \/ a.n_max_iter.v < 1 THEN "ValueError: n_max_iter"
    ELSE NoError

\* the loop left on terminated before the reward is recorded
RewardsAfterStep_BreakFirst(rs, r, term) == IF term THEN rs ELSE Append(rs, r)

\* line 53: rewards.append(reward), before terminated is looked at (line 60)
RewardsAfterStep(rs, r, term) == Append(rs, r)

\* lines 54-58: scada_data is the first record, later ones are concatenated
ScadaAfterStep(sd, rec) == Append(sd, rec)

\* the steps the environment has made
StepsTaken(cs) == Cardinality({ k \in 1..Len(cs) : cs[k][1] = "step" })

EvalCall ==
    /\ epc = "idle"
    /\ \E a \in EvalInputs : eargs' = a
    /\ epc' = "validate"
    /\ UNCHANGED <<eleft, eobs, rewards, scada_data, terminated, calls, eerr>>
    /\ UNCHANGED notEvalVars

\* lines 36-43
EvalValidate ==
    /\ epc = "validate"
    /\ IF EvalValidationError(eargs) # NoError
       THEN /\ epc' = "raised"
            /\ eerr' = EvalValidationError(eargs)
       ELSE /\ epc' = "reset"
            /\ eerr' = eerr
    /\ UNCHANGED <<eargs, eleft, eobs, rewards, scada_data, terminated, calls>>
    /\ UNCHANGED notEvalVars

\* lines 45-49: rewards = [], scada_data = None, obs, _ = env.reset(), range(n_max_iter)
EvalReset ==
    /\ epc = "reset"
    /\ rewards' = <<>>
    /\ scada_data' = <<>>
    /\ calls' = Append(calls, <<"reset", 0, FALSE>>)
    /\ eobs' = 0
    /\ eleft' = IF eargs.n_max_iter.v > 0 THEN eargs.n_max_iter.v ELSE 0
    /\ epc' = IF eargs.n_max_iter.v > 0 THEN "loop" ELSE "close"
    /\ UNCHANGED <<eargs, terminated, eerr>>
    /\ UNCHANGED notEvalVars

\* lines 49-61: one iteration of the loop; the loop goes on unless the step
\* reports terminated (break) or range(n_max_iter) is exhausted
EvalIterate ==
    /\ epc = "loop"
    /\ \E reward \in Rewards, term \in BOOLEAN :
          LET action == eobs
              obsNext == StepsTaken(calls) + 1
          IN  /\ calls' = calls \o << <<"policy", eobs, FALSE>>, <<"step", action, term>> >>
              /\ eobs' = obsNext
              /\ rewards' = RewardsAfterStep(rewards, reward, term)
              /\ scada_data' = ScadaAfterStep(scada_data, obsNext)
              /\ terminated' = term
              /\ eleft' = eleft - 1
              /\ epc' = IF term \/ eleft = 1 THEN "close" ELSE "loop"
    /\ UNCHANGED <<eargs, eerr>>
    /\ UNCHANGED notEvalVars

\* line 63: env.close(), after the loop ended or was left
EvalClose ==
    /\ epc = "close"
    /\ calls' = Append(calls, <<"close", 0, FALSE>>)
    /\ epc' = "closed"
    /\ UNCHANGED <<eargs, eleft, eobs, rewards, scada_data, terminated, eerr>>
    /\ UNCHANGED notEvalVars

\* line 65: return rewards, scada_data
EvalReturn ==
    /\ epc = "closed"
    /\ epc' = "returned"
    /\ UNCHANGED <<eargs, eleft, eobs, rewards, scada_data, terminated, calls, eerr>>
    /\ UNCHANGED notEvalVars

\* the run is over
EvalDiscard ==
    /\ epc \in {"returned", "raised"}
    /\ epc' = "idle"
    /\ eargs' = NoEvalArgs
    /\ eleft' = 0
    /\ eobs' = 0
    /\ rewards' = <<>>
    /\ scada_data' = <<>>
    /\ terminated' = FALSE
    /\ calls' = <<>>
    /\ eerr' = NoError
    /\ UNCHANGED notEvalVars

NextEval ==
    \/ EvalCall
    \/ EvalValidate
    \/ EvalReset
    \/ EvalIterate
    \/ EvalClose
    \/ EvalReturn
    \/ EvalDiscard

SpecEval == Init /\ [][NextEval]_vars


(***************************************************************************)
(* C23: evaluate_policy performs at least one and at most n_max_iter       *)
(* environment steps, stops immediately after the first step that reports  *)
(* terminated, and returns a rewards list with exactly one entry per step  *)
(* taken, the terminating step included.                                   *)
(***************************************************************************)
\* call k of the log is a step that reported terminated
TerminatingStep(cs, k) == cs[k][1] = "step" /\ cs[k][3]

C23_StepsAndRewards ==
    /\ epc \in {"loop", "close", "closed", "returned"} => Len(rewards) = StepsTaken(calls)
    /\ epc \in {"close", "closed", "returned"} =>
          /\ StepsTaken(calls) >= 1
          /\ StepsTaken(calls) <= eargs.n_max_iter.v
          /\ StepsTaken(calls) < eargs.n_max_iter.v => terminated
    /\ \A k \in 1..Len(calls) :
          TerminatingStep(calls, k) =>
              \A j \in (k + 1)..Len(calls) : calls[j][1] = "close"

\* a run that ends by termination before n_max_iter steps
C23_Witness ==
    /\ epc = "returned"
    /\ eargs.n_max_iter.v = MaxIter
    /\ StepsTaken(calls) = 2 /\ terminated
    /\ Len(rewards) = 2


(***************************************************************************)
(* C24: a run of evaluate_policy touches the environment in the order:     *)
(* reset exactly once, then for each iteration one policy call on the most *)
(* recent observation followed by one step, then close exactly once after  *)
(* the last step; when the validation of the arguments fails (env not an   *)
(* RlEnv, policy not callable, n_max_iter not an integer >= 1) none of     *)
(* reset, step or close is called.                                         *)
(***************************************************************************)
EvalArgsInvalid(a) ==
    \/ ~a.env_is_rlenv
    \/ ~a.policy_callable
    \/ a.n_max_iter.kind # "int"
    \/ a.n_max_iter.v < 1

\* call k of the log cs is the one the order allows at its place: reset first,
\* then policy (on the observation of the call before) and step in turns,
\* close last
InOrder(cs, k) ==
    IF k = 1 THEN cs[k][1] = "reset"
    ELSE IF cs[k][1] = "close" THEN k = Len(cs) /\ cs[k - 1][1] = "step"
    ELSE IF k % 2 = 0 THEN cs[k] = <<"policy", (k \div 2) - 1, FALSE>>
    ELSE cs[k][1] = "step" /\ cs[k][2] = cs[k - 1][2]

ActionSpaceClasses ==
    { "PumpSpeedActionSpace", "PumpStateActionSpace", "ValveStateActionSpace",
      "ChemicalInjectionActionSpace" }

IsInstance(item, cls) == item.cls = cls

\* any(not isinstance(item, cls) for item in l)
AnyNotInstance(l, cls) == \E k \in 1..Len(l.items) : ~IsInstance(l.items[k], cls)

HydInputs ==
    [ pumps_speed_action_space :
          { NoList, ListOf(<< Space("PumpSpeedActionSpace", "p1") >>),
            ListOf(<< Space("PumpStateActionSpace", "p1") >>),
            TupleOf(<< Space("PumpSpeedActionSpace", "p1") >>) },
      pumps_state_action_space :
          { NoList, ListOf(<<>>), ListOf(<< Space("PumpStateActionSpace", "p2") >>),
            ListOf(<< Space("PumpStateActionSpace", "p2"),
                      Space("PumpStateActionSpace", "p3") >>),
            ListOf(<< Space("PumpSpeedActionSpace", "p2") >>),
            TupleOf(<< Space("PumpStateActionSpace", "p2") >>) },
      valves_state_action_space :
          { NoList, ListOf(<< Space("ValveStateActionSpace", "v1") >>),
            ListOf(<< Space("ValveStateActionSpace", "v1"),
                      Space("ValveStateActionSpace", "v2") >>),
            ListOf(<< Space("PumpStateActionSpace", "p2") >>) },
      chemical_injection_action_space :
          { NoList, ListOf(<< Space("ChemicalInjectionActionSpace", "n1") >>),
            TupleOf(<< Space("ChemicalInjectionActionSpace", "n1") >>) } ]

\* the check of one argument: lines 49-57, 58-66, 67-75, 76-84
CheckSpaceList(l, cls, name) ==
    IF l = NoList THEN NoError
    ELSE IF l.kind # "list" THEN "TypeError: " \o name
    ELSE IF AnyNotInstance(l, cls) THEN "TypeError: item of " \o name
    ELSE NoError

\* lines 49-84: the checks in the order of the code; the items of
\* pumps_state_action_space are tested against PumpSpeedActionSpace (line 63)
HydValidationError(a) ==
    LET e1 == CheckSpaceList(a.pumps_speed_action_space, "PumpSpeedActionSpace",
                             "pumps_speed_action_space")
        e2 == CheckSpaceList(a.pumps_state_action_space, "PumpSpeedActionSpace",
                             "pumps_state_action_space")
        e3 == CheckSpaceList(a.valves_state_action_space, "ValveStateActionSpace",
                             "valves_state_action_space")
        e4 == CheckSpaceList(a.chemical_injection_action_space,
                             "ChemicalInjectionActionSpace",
                             "chemical_injection_action_space")
    IN  IF e1 # NoError THEN e1
        ELSE IF e2 # NoError THEN e2
        ELSE IF e3 # NoError THEN e3
        ELSE e4

\* my_actions += l when l is not None
Extended(lst, l) == IF l = NoList THEN lst ELSE lst \o l.items

\* action_space |= {f"{id}-suffix": ... for ... in l} when l is not None
Merged(keys, l, suffix) ==
    IF l = NoList THEN keys
    ELSE keys \cup { l.items[k].id \o suffix : k \in 1..Len(l.items) }

\* lines 91-112: my_actions at the end of the five blocks
MyActions(a) ==
    Extended(Extended(Extended(Extended(Extended(<<>>,
        a.pumps_speed_action_space),
        a.pumps_state_action_space),
        a.valves_state_action_space),
        a.valves_state_action_space),
        a.chemical_injection_action_space)

\* lines 91-112: the keys of action_space at the end of the five blocks
ActionSpaceKeys(a) ==
    Merged(Merged(Merged(Merged(Merged({},
        a.pumps_speed_action_space, "-speed"),
        a.pumps_state_action_space, "-state"),
        a.valves_state_action_space, "-state"),
        a.valves_state_action_space, "-state"),
        a.chemical_injection_action_space, "-chem")

HydCall ==
    /\ hpc = "idle"
    /\ \E a \in HydInputs : hargs' = a
    /\ hpc' = "validate"
    /\ UNCHANGED <<my_actions, action_space, action_spaces, herr>>
    /\ UNCHANGED notHydVars

\* lines 49-84
HydValidate ==
    /\ hpc = "validate"
    /\ IF HydValidationError(hargs) # NoError
       THEN /\ hpc' = "raised"
            /\ herr' = HydValidationError(hargs)
       ELSE /\ hpc' = "build"
            /\ herr' = herr
    /\ UNCHANGED <<hargs, my_actions, action_space, action_spaces>>
    /\ UNCHANGED notHydVars

\* lines 86-114
HydBuild ==
    /\ hpc = "build"
    /\ my_actions' = MyActions(hargs)
    /\ action_space' = ActionSpaceKeys(hargs)
    /\ hpc' = "super"
    /\ UNCHANGED <<hargs, action_spaces, herr>>
    /\ UNCHANGED notHydVars

\* lines 116-117 and RlEnv.__init__, rl_env.py lines 41-60: action_spaces is a
\* list of ActionSpace instances and is stored as it is
HydSuper ==
    /\ hpc = "super"
    /\ IF \E k \in 1..Len(my_actions) : my_actions[k].cls \notin ActionSpaceClasses
       THEN /\ hpc' = "raised"
            /\ herr' = "TypeError: item of action_spaces"
            /\ UNCHANGED action_spaces
       ELSE /\ hpc' = "constructed"
            /\ action_spaces' = my_actions
            /\ UNCHANGED herr
    /\ UNCHANGED <<hargs, my_actions, action_space>>
    /\ UNCHANGED notHydVars

\* the construction is over
HydDiscard ==
    /\ hpc \in {"constructed", "raised"}
    /\ hpc' = "idle"
    /\ hargs' = NoHydArgs
    /\ my_actions' = <<>>
    /\ action_space' = {}
    /\ action_spaces' = <<>>
    /\ herr' = NoError
    /\ UNCHANGED notHydVars

NextHyd ==
    \/ HydCall
    \/ HydValidate
    \/ HydBuild
    \/ HydSuper
    \/ HydDiscard

SpecHyd == Init /\ [][NextHyd]_vars


\* the action spaces supplied to the constructor, over the four arguments
Supplied(a) ==
    { a.pumps_speed_action_space.items[k] :
          k \in 1..Len(a.pumps_speed_action_space.items) }
    \cup { a.pumps_state_action_space.items[k] :
          k \in 1..Len(a.pumps_state_action_space.items) }
    \cup { a.valves_state_action_space.items[k] :
          k \in 1..Len(a.valves_state_action_space.items) }
    \cup { a.chemical_injection_action_space.items[k] :
          k \in 1..Len(a.chemical_injection_action_space.items) }

Occurrences(lst, e) == Cardinality({ k \in 1..Len(lst) : lst[k] = e })

\* C25: the list of action spaces handed to RlEnv holds every supplied action
\* space exactly once and has as many entries as the action-space dictionary
\* from which the gym action space is built.
C25_OneEntryPerElement ==
    hpc = "constructed" =>
        /\ Len(action_spaces) = Cardinality(action_space)
        /\ \A e \in Supplied(hargs) : Occurrences(action_spaces, e) = 1

PumpStateErrors ==
    { "TypeError: pumps_state_action_space",
      "TypeError: item of pumps_state_action_space" }

\* C26: construction raises a TypeError for pumps_state_action_space only when
\* the argument is not a list or holds an item that is not a
\* PumpStateActionSpace.
C26_PumpStateListAccepted ==
    (hpc = "raised" /\ herr \in PumpStateErrors) =>
        \/ hargs.pumps_state_action_space.kind # "list"
        \/ AnyNotInstance(hargs.pumps_state_action_space, "PumpStateActionSpace")


(***************************************************************************)
(* AdvancedQualityControlEnv (advanced_quality_control_env.py): __init__,  *)
(* which ends in RlEnv.__init__, and reset, which calls RlEnv.reset        *)
(* (rl_env.py) when the hydraulics are run again.                          *)
(***************************************************************************)
AqInputs ==
    [ action_space :
          { ListOf(<< Space("SpeciesInjectionActionSpace", "n1") >>),
            ListOf(<< Space("ChemicalInjectionActionSpace", "n1") >>),
            ListOf(<<>>),
            TupleOf(<< Space("SpeciesInjectionActionSpace", "n1") >>) },
      rerun_hydraulics_when_reset : { "absent", "True", "False", "1" },
      reload_scenario_when_reset : { "absent", "True", "False", "1" } ]

IsBool(v) == v \in { "True", "False" }

\* line 35: rerun_hydraulics_when_reset: bool = True
RerunArgument(a) ==
    IF a.rerun_hydraulics_when_reset = "absent" THEN "True"
    ELSE a.rerun_hydraulics_when_reset

\* the mutation of ReloadKeyword: the keyword is handed on as it was given
ReloadKeyword_NotForced(a) == a.reload_scenario_when_reset

\* lines 49-54: kwds["reload_scenario_when_reset"] as handed to RlEnv.__init__
\* when line 51 does not raise
ReloadKeyword(a) ==
    IF a.reload_scenario_when_reset # "absent" THEN a.reload_scenario_when_reset
    ELSE IF RerunArgument(a) = "False" THEN "False"
    ELSE "absent"

\* rl_env.py line 39: reload_scenario_when_reset: bool = True
ReloadArgument(kw) == IF kw = "absent" THEN "True" ELSE kw

\* lines 36-51, then rl_env.py lines 44-53 (every action space class is an
\* ActionSpace and the gym action space is a Space)
AqInitError(a) ==
    IF a.action_space.kind # "list" THEN "TypeError: action_space"
    ELSE IF AnyNotInstance(a.action_space, "SpeciesInjectionActionSpace")
    THEN "TypeError: item of action_space"
    ELSE IF Len(a.action_space.items) = 0 THEN "ValueError: Empty action space"
    ELSE IF ~IsBool(RerunArgument(a)) THEN "TypeError: rerun_hydraulics_when_reset"
    ELSE IF /\ a.reload_scenario_when_reset # "absent"
            /\ a.reload_scenario_when_reset = "True"
            /\ RerunArgument(a) = "False"
    THEN "ValueError: rerun_hydraulics_when_reset must be True"
    ELSE IF ~IsBool(ReloadArgument(ReloadKeyword(a)))
    THEN "TypeError: reload_scenario_when_reset"
    ELSE NoError

\* lines 69-93, AdvancedQualityControlEnv.reset: what it returns or raises.
\* With the hydraulics run again scada_data is the tuple RlEnv.reset returns
\* (rl_env.py line 170), and _get_observation (rl_env.py lines 173-174) calls
\* get_data() on it.
AqResetResult(rerun, sim, return_as_observations) ==
    LET as_obs == return_as_observations \/ sim = "None"
        scada == IF rerun = "True" THEN "tuple" ELSE "ScadaData"
    IN  IF as_obs /\ scada = "tuple"
        THEN [ outcome |-> "raised", first |-> "AttributeError", info |-> {} ]
        ELSE [ outcome |-> "returned",
               first |-> IF as_obs THEN "ndarray" ELSE scada,
               info |-> {} ]

AqCall ==
    /\ apc = "idle"
    /\ \E a \in AqInputs : aargs' = a
    /\ apc' = "init"
    /\ UNCHANGED <<rerun_hydraulics_when_reset, reload_scenario_when_reset,
                   scenario_sim, reset_result, aerr>>
    /\ UNCHANGED notAqVars

\* lines 36-64 and rl_env.py lines 41-60
AqConstruct ==
    /\ apc = "init"
    /\ IF AqInitError(aargs) # NoError
       THEN /\ apc' = "raised"
            /\ aerr' = AqInitError(aargs)
            /\ UNCHANGED <<rerun_hydraulics_when_reset, reload_scenario_when_reset>>
       ELSE /\ apc' = "ready"
            /\ rerun_hydraulics_when_reset' = RerunArgument(aargs)
            /\ reload_scenario_when_reset' = ReloadArgument(ReloadKeyword(aargs))
            /\ UNCHANGED aerr
    /\ UNCHANGED <<aargs, scenario_sim, reset_result>>
    /\ UNCHANGED notAqVars

\* lines 66-93; the scenario is loaded by the first reset on either path
\* (line 76, rl_env.py lines 148 and 151)
AqReset ==
    /\ apc = "ready"
    /\ \E return_as_observations \in BOOLEAN :
           reset_result' = AqResetResult(rerun_hydraulics_when_reset, scenario_sim,
                                         return_as_observations)
    /\ scenario_sim' = "loaded"
    /\ UNCHANGED <<apc, aargs, rerun_hydraulics_when_reset,
                   reload_scenario_when_reset, aerr>>
    /\ UNCHANGED notAqVars

\* the environment is dropped
AqDiscard ==
    /\ apc \in {"ready", "raised"}
    /\ apc' = "idle"
    /\ aargs' = NoAqArgs
    /\ rerun_hydraulics_when_reset' = "unset"
    /\ reload_scenario_when_reset' = "unset"
    /\ scenario_sim' = "None"
    /\ reset_result' = NoResult
    /\ aerr' = NoError
    /\ UNCHANGED notAqVars

NextAq ==
    \/ AqCall
    \/ AqConstruct
    \/ AqReset
    \/ AqDiscard

SpecAq == Init /\ [][NextAq]_vars

\* the checks before line 49 pass
AqArgsChecked(a) ==
    /\ a.action_space.kind = "list"
    /\ ~AnyNotInstance(a.action_space, "SpeciesInjectionActionSpace")
    /\ Len(a.action_space.items) > 0
    /\ IsBool(RerunArgument(a))

\* C27: every constructed AdvancedQualityControlEnv with
\* rerun_hydraulics_when_reset = False has reload_scenario_when_reset = False;
\* reload_scenario_when_reset = True given together with
\* rerun_hydraulics_when_reset = False is rejected with a ValueError; and when
\* reload_scenario_when_reset is not given and rerun is False, it is False.
C27_RerunOffImpliesReloadOff ==
    /\ apc = "ready" =>
           /\ rerun_hydraulics_when_reset = RerunArgument(aargs)
           /\ (rerun_hydraulics_when_reset = "False"
                   => reload_scenario_when_reset = "False")
    /\ ( /\ apc \in {"ready", "raised"}
         /\ AqArgsChecked(aargs)
         /\ aargs.reload_scenario_when_reset = "True"
         /\ RerunArgument(aargs) = "False" )
           => (apc = "raised"
               /\ aerr = "ValueError: rerun_hydraulics_when_reset must be True")
    /\ ( /\ apc \in {"ready", "raised"}
         /\ AqArgsChecked(aargs)
         /\ aargs.reload_scenario_when_reset = "absent"
         /\ RerunArgument(aargs) = "False" )
           => (apc = "ready" /\ reload_scenario_when_reset = "False")

\* an environment constructed with rerun False and no reload keyword has been
\* reset twice
C27_Witness ==
    /\ apc = "ready"
    /\ aargs.reload_scenario_when_reset = "absent"
    /\ rerun_hydraulics_when_reset = "False"
    /\ reload_scenario_when_reset = "False"
    /\ reset_result.outcome = "returned"
    /\ reset_result.first = "ScadaData"

\* C28: AdvancedQualityControlEnv.reset returns a pair (observation, info)
\* for both settings of rerun_hydraulics_when_reset: its first component is
\* the observation or the ScadaData of the first simulation step, not a
\* nested tuple, and info holds that ScadaData under the key 'scada_data'.
C28_ResetReturnsObservationAndInfo ==
    (apc = "ready" /\ reset_result # NoResult) =>
        /\ reset_result.outcome = "returned"
        /\ reset_result.first \in {"ndarray", "ScadaData"}
        /\ "scada_data" \in reset_result.info


(***************************************************************************)
(* StateTransitionSurrogate.fit_to_env (surrogates.py).  The environment   *)
(* is any RlEnv: step returns terminated as True, False or, with           *)
(* autoreset, None (rl_env.py lines 216-219).                              *)
(***************************************************************************)
FitInputs ==
    [ n_max_iter : { [kind |-> "NoneType", v |-> 0] }
                       \cup { IntVal(k) : k \in 0..MaxIter },
      policy_given : BOOLEAN ]

FitCall ==
    /\ fpc = "idle"
    /\ \E a \in FitInputs : fargs' = a
    /\ fpc' = "reset"
    /\ UNCHANGED <<fleft, control_actions, fscada, fsteps, fitted, ferr>>
    /\ UNCHANGED notFitVars

\* lines 139-143: env.reset(), then range(n_max_iter)
FitReset ==
    /\ fpc = "reset"
    /\ IF fargs.n_max_iter.kind # "int"
       THEN /\ fpc' = "raised"
            /\ ferr' = "TypeError: range"
            /\ UNCHANGED fleft
       ELSE /\ fpc' = IF fargs.n_max_iter.v > 0 THEN "loop" ELSE "close"
            /\ fleft' = fargs.n_max_iter.v
            /\ UNCHANGED ferr
    /\ UNCHANGED <<fargs, control_actions, fscada, fsteps, fitted>>
    /\ UNCHANGED notFitVars

\* lines 144-154: one iteration; the record of a step is its number
FitIterate ==
    /\ fpc = "loop"
    /\ \E action \in Rewards, term \in {"True", "False", "None"} :
           /\ control_actions' = Append(control_actions, action)
           /\ fsteps' = Append(fsteps, term)
           /\ fscada' = IF term = "True" THEN fscada
                        ELSE Append(fscada, Len(fsteps) + 1)
           /\ fpc' = IF term = "True" \/ fleft = 1 THEN "close" ELSE "loop"
    /\ fleft' = fleft - 1
    /\ UNCHANGED <<fargs, fitted, ferr>>
    /\ UNCHANGED notFitVars

\* lines 156-159: env.close(), then fit_to_scada
FitClose ==
    /\ fpc = "close"
    /\ fitted' = [n_actions |-> Len(control_actions), n_records |-> Len(fscada)]
    /\ fpc' = "fitted"
    /\ UNCHANGED <<fargs, fleft, control_actions, fscada, fsteps, ferr>>
    /\ UNCHANGED notFitVars

\* the call is over
FitDiscard ==
    /\ fpc \in {"fitted", "raised"}
    /\ fpc' = "idle"
    /\ fargs' = NoFitArgs
    /\ fleft' = 0
    /\ control_actions' = <<>>
    /\ fscada' = <<>>
    /\ fsteps' = <<>>
    /\ fitted' = NotFitted
    /\ ferr' = NoError
    /\ UNCHANGED notFitVars

NextFit ==
    \/ FitCall
    \/ FitReset
    \/ FitIterate
    \/ FitClose
    \/ FitDiscard

SpecFit == Init /\ [][NextFit]_vars

\* C29: fit_to_env takes at most n_max_iter steps and stops at the first
\* terminated step, and fit_to_scada is handed as many control actions as
\* per-step SCADA records, also in a run that ends by termination.
C29_AlignedData ==
    fpc = "fitted" =>
        /\ Len(fsteps) <= fargs.n_max_iter.v
        /\ \A k \in 1..(Len(fsteps) - 1) : fsteps[k] # "True"
        /\ fitted.n_actions = Len(fsteps)
        /\ fitted.n_actions = fitted.n_records

====
